---- MODULE Spec2Model ----
(***************************************************************************)
(* Model of simcccc.py, the serial interactive Meshtastic custom channel   *)
(* chat client: the foreground coroutine main(), the pubsub callback       *)
(* onReceive(), the SIGINT signal and the calls main() issues on the       *)
(* SerialInterface.                                                        *)
(*                                                                         *)
(* The display (standard output) is a terminal: a sequence of completed    *)
(* lines and the current, unterminated line.  Python values that reach     *)
(* onReceive are tagged records: None, str (a sequence of characters) and  *)
(* dict (a function from keys to values).                                  *)
(*                                                                         *)
(* SIGINT is delivered the way CPython's asyncio.run delivers it.  Builds  *)
(* before 3.11 keep the default handler, which raises KeyboardInterrupt in *)
(* the main thread wherever it is executing (sigMode = "raise"); 3.11 and  *)
(* later install a handler that cancels the main task, so that the task    *)
(* sees CancelledError at its next await (sigMode = "cancel").  When the   *)
(* main thread is parked in the event loop (an await of main), both builds *)
(* end up throwing CancelledError into main at that await.                 *)
(***************************************************************************)
EXTENDS Integers, Sequences, FiniteSets, TLC

(* ---------------- bounds of the model ---------------- *)
MaxLines == 2
MaxRecv == 1
(* the same, for the runs that start at the first prompt *)
MaxLoopLines == 2
MaxLoopRecv == 2

(* ---------------- program constants ---------------- *)
CUSTOM_CHANNEL_NAME == "DC540"
CUSTOM_CHANNEL_PSK == "OVRpanBCYjZ2WmVIZTRheVlSZDZZWGxUcElFNFRSaWo="
CHANNEL_INDEX == 1
PROMPT == "Ch1> "
NL == "\n"

(* exit status of a process that dies of an uncaught KeyboardInterrupt *)
STATUS_SIGINT == 130
(* exit status of a process that dies of any other uncaught exception *)
STATUS_UNCAUGHT == 1

(* ---------------- Python values ---------------- *)
PyNone == [t |-> "None"]
PyStr(cs) == [t |-> "str", s |-> cs]
PyDict(f) == [t |-> "dict", d |-> f]
EmptyDict == [k \in {} |-> PyNone]

TEXT == <<"t", "e", "x", "t">>

(* a guard that lets every packet through *)
Truthy_Always(v) == TRUE

(* bool(v) *)
Truthy(v) ==
    CASE v.t = "None" -> FALSE
      [] v.t = "str"  -> Len(v.s) > 0
      [] v.t = "dict" -> DOMAIN v.d # {}

RECURSIVE Join(_)
Join(cs) == IF cs = <<>> THEN "" ELSE Head(cs) \o Join(Tail(cs))

(* str(v), as an f-string formats it *)
Format(v) ==
    CASE v.t = "None" -> "None"
      [] v.t = "str"  -> Join(v.s)
      [] v.t = "dict" -> "{...}"

(* d.get(key) without the default *)
DictGet_NoDefault(v, key, default) ==
    IF key \in DOMAIN v.d THEN v.d[key] ELSE PyNone

(* d.get(key, default) on a dict *)
DictGet(v, key, default) ==
    IF key \in DOMAIN v.d THEN v.d[key] ELSE default

(* whether `"text" in v` evaluates without raising *)
InDefined(v) == v.t \in {"str", "dict"}

(* the value of `"text" in v`: key membership on a dict, substring on a str *)
TextIn(v) ==
    CASE v.t = "dict" -> "text" \in DOMAIN v.d
      [] v.t = "str"  -> \E i \in 1..Len(v.s) :
                            /\ i + Len(TEXT) - 1 <= Len(v.s)
                            /\ SubSeq(v.s, i, i + Len(TEXT) - 1) = TEXT
      [] OTHER -> FALSE

(* ---------------- the display ---------------- *)
EmptyDisplay == [lines |-> <<>>, cur |-> ""]

(* write one chunk: a line break completes the current line *)
Write(d, chunk) ==
    IF chunk = NL
    THEN [lines |-> Append(d.lines, d.cur), cur |-> ""]
    ELSE [lines |-> d.lines, cur |-> d.cur \o chunk]

RECURSIVE Emit(_, _)
Emit(d, chunks) ==
    IF chunks = <<>> THEN d ELSE Emit(Write(d, Head(chunks)), Tail(chunks))

(* print(s): s and a line break *)
PyPrint(d, s) == Emit(d, <<s, NL>>)

(* ---------------- onReceive ---------------- *)
(* The callback applied to a packet with the display d: the display it     *)
(* leaves and the exception it raises into the publisher, if any.          *)
onReceive(packet, d) ==
    IF ~Truthy(packet)
    THEN [d |-> d, err |-> "none"]
    ELSE IF packet.t # "dict"
    THEN [d |-> d, err |-> "AttributeError"]
    ELSE LET decoded == DictGet(packet, "decoded", PyDict(EmptyDict)) IN
         IF ~InDefined(decoded)
         THEN [d |-> d, err |-> "TypeError"]
         ELSE IF ~TextIn(decoded)
         THEN [d |-> d, err |-> "none"]
         ELSE IF decoded.t # "dict"
         THEN [d |-> d, err |-> "TypeError"]
         ELSE LET sender == DictGet(packet, "fromId", PyStr(<<"u","n","k","n","o","w","n">>))
                  message == decoded.d["text"]
              IN [d |-> Emit(d, <<NL, Format(sender) \o ": " \o Format(message), NL, PROMPT>>),
                  err |-> "none"]

(* ---------------- inputs ---------------- *)
SENDER == <<"!", "a", "1">>
HI == <<"h", "i">>

Packets ==
    { PyNone,
      PyDict(EmptyDict),
      PyDict([fromId |-> PyStr(SENDER)]),
      PyDict([decoded |-> PyDict(EmptyDict)]),
      PyDict([decoded |-> PyDict([portnum |-> PyStr(<<"P">>)]), fromId |-> PyStr(SENDER)]),
      PyDict([decoded |-> PyNone, fromId |-> PyStr(SENDER)]),
      PyDict([decoded |-> PyStr(<<"a", " ">> \o TEXT)]),
      PyDict([decoded |-> PyStr(<<"r", "a", "w">>)]),
      PyDict([decoded |-> PyDict([text |-> PyStr(HI)])]),
      PyDict([decoded |-> PyDict([text |-> PyStr(HI)]), fromId |-> PyStr(SENDER)]),
      PyDict([decoded |-> PyDict([text |-> PyStr(<<"y", "o">>)]), fromId |-> PyStr(SENDER)]) }

Lines == {"", "hello"}
LoopLines == {"", "hello", "yo"}
(* the packets of Packets that onReceive prints, and one that it ignores *)
LoopPackets ==
    { PyNone,
      PyDict([decoded |-> PyDict([text |-> PyStr(HI)])]),
      PyDict([decoded |-> PyDict([text |-> PyStr(HI)]), fromId |-> PyStr(SENDER)]),
      PyDict([decoded |-> PyDict([text |-> PyStr(<<"y", "o">>)]), fromId |-> PyStr(SENDER)]) }
PORT == "COM3"
ERRTEXT == "boom"

(* the channel slot as the device holds it before the program runs *)
DefaultChannel == [name |-> "", psk |-> "AQ==", usePreset |-> TRUE]

(* ---------------- state ---------------- *)
VARIABLES
    pc,          \* position of main(): a label of the statement about to run
    sigMode,     \* how the build delivers SIGINT: "raise" or "cancel"
    hasPort,     \* whether sys.argv carries the port argument
    subscribed,  \* onReceive is subscribed to meshtastic.receive.text
    iface,       \* the SerialInterface: "unbound", "open", "closed"
    display,     \* standard output
    ch1,         \* node.channels[1] of the local node
    devCh1,      \* channel 1 as persisted by writeChannel
    cfgWritten,  \* writeConfig completed
    provStep,    \* next provisioning statement, 1..7
    msg,         \* the line held by msg
    linesRead,   \* the lines input() returned, in order
    calls,       \* the calls issued on the interface, in order
    sigint,      \* "none", "pending" (task cancellation requested), "delivered"
    recvLog,     \* the packets published to onReceive, in order
    cbErr,       \* what the last onReceive call raised, "none" if nothing
    faults,      \* the calls that raised so far: "open", "prov", "send", "input"
    settled,     \* time.sleep(2) of line 98 has returned
    exitStatus   \* the process exit status, meaningful when pc = "exited"

vars == <<pc, sigMode, hasPort, subscribed, iface, display, ch1, devCh1, cfgWritten,
          provStep, msg, linesRead, calls, sigint, recvLog, cbErr, faults, settled, exitStatus>>

connVars == <<iface, ch1, devCh1, cfgWritten, calls>>
chanVars == <<iface, ch1, devCh1, cfgWritten>>
loopVars == <<msg, linesRead>>
recvVars == <<recvLog, cbErr>>
envVars == <<sigMode, hasPort, subscribed, settled>>

Init ==
    /\ pc = "subscribe"
    /\ sigMode \in {"raise", "cancel"}
    /\ hasPort \in BOOLEAN
    /\ subscribed = FALSE
    /\ iface = "unbound"
    /\ display = EmptyDisplay
    /\ ch1 = DefaultChannel
    /\ devCh1 = DefaultChannel
    /\ cfgWritten = FALSE
    /\ provStep = 1
    /\ msg = ""
    /\ linesRead = <<>>
    /\ calls = <<>>
    /\ sigint = "none"
    /\ recvLog = <<>>
    /\ cbErr = "none"
    /\ faults = {}
    /\ settled = FALSE
    /\ exitStatus = 0

(* ---------------- exception handling of main ---------------- *)
OpenTryPcs == {"open", "settle"}
ProvTryPcs == {"provBegin", "prov"}
LoopTryPcs == {"prompt", "await", "send", "pace"}
AwaitPcs == {"await", "pace"}

(* a handler that catches the wrong class *)
OpenExcept_WrongClass(e) == e = "KeyboardInterrupt"

(* `except Exception` of the open block, line 99 *)
OpenExcept(e) == e \in {"Exception", "EOFError"}

(* a handler that catches the wrong class *)
ProvExcept_WrongClass(e) == e = "KeyboardInterrupt"

(* `except Exception` of the provisioning block, line 114 *)
ProvExcept(e) == e \in {"Exception", "EOFError"}

(* `except KeyboardInterrupt` of the loop, line 131 *)
LoopExcept(e) == e = "KeyboardInterrupt"

(* exit status of the process when e leaves main uncaught *)
UncaughtStatus(e) == IF e = "KeyboardInterrupt" THEN STATUS_SIGINT ELSE STATUS_UNCAUGHT

(* Exception e is raised by the statement at pc: the handler that takes it *)
(* runs, or the exception leaves main and ends the process.                *)
Raise(e) ==
    CASE pc \in OpenTryPcs /\ OpenExcept(e) ->
            /\ display' = PyPrint(display, "Error initializing SerialInterface: " \o ERRTEXT)
            /\ pc' = "exited"
            /\ exitStatus' = 1
      [] pc \in ProvTryPcs /\ ProvExcept(e) ->
            /\ display' = PyPrint(display, "Error configuring Channel 1: " \o ERRTEXT)
            /\ pc' = "banner"
            /\ UNCHANGED exitStatus
      [] pc \in LoopTryPcs /\ LoopExcept(e) ->
            /\ display' = Emit(display, <<NL, "Exiting...", NL>>)
            /\ pc' = "finally"
            /\ UNCHANGED exitStatus
      [] pc \in LoopTryPcs /\ ~LoopExcept(e) ->
            /\ pc' = "finally"
            /\ UNCHANGED <<display, exitStatus>>
      [] OTHER ->
            /\ pc' = "exited"
            /\ exitStatus' = UncaughtStatus(e)
            /\ UNCHANGED display

(* ---------------- statements of main ---------------- *)
(* a loop that sends whatever it read *)
LineTruthy_Always(m) == TRUE

(* `if msg:` on the str that input() returned *)
LineTruthy(m) == m # ""

(* provisioning that persists the node configuration before the channel *)
ProvStmts_Swapped == <<"localNode", "channels[1]", "name", "psk", "usePreset", "writeConfig", "writeChannel">>

(* the provisioning statements of lines 106-112, in program order *)
ProvStmts == <<"localNode", "channels[1]", "name", "psk", "usePreset", "writeChannel", "writeConfig">>

(* provisioning that leaves the preset flag alone *)
ProvAssign_KeepPreset(stmt, ch) ==
    CASE stmt = "name"      -> [ch EXCEPT !.name = CUSTOM_CHANNEL_NAME]
      [] stmt = "psk"       -> [ch EXCEPT !.psk = CUSTOM_CHANNEL_PSK]
      [] OTHER              -> ch

(* the channel object after the provisioning statement stmt *)
ProvAssign(stmt, ch) ==
    CASE stmt = "name"      -> [ch EXCEPT !.name = CUSTOM_CHANNEL_NAME]
      [] stmt = "psk"       -> [ch EXCEPT !.psk = CUSTOM_CHANNEL_PSK]
      [] stmt = "usePreset" -> [ch EXCEPT !.usePreset = FALSE]
      [] OTHER              -> ch

(* the calls on the interface after the provisioning statement stmt *)
ProvCall(stmt, cs) ==
    CASE stmt = "writeChannel" -> Append(cs, [op |-> "writeChannel", index |-> CHANNEL_INDEX])
      [] stmt = "writeConfig"  -> Append(cs, [op |-> "writeConfig"])
      [] OTHER                 -> cs

(* a send of a fixed text instead of the line read *)
SendCall_Fixed(m) == [op |-> "sendText", text |-> "hello", channelIndex |-> CHANNEL_INDEX]

(* line 129: the sendText call for the line m *)
SendCall(m) == [op |-> "sendText", text |-> m, channelIndex |-> CHANNEL_INDEX]

(* line 140: pub.subscribe(onReceive, "meshtastic.receive.text") *)
Subscribe ==
    /\ pc = "subscribe"
    /\ subscribed' = TRUE
    /\ pc' = "start"
    /\ UNCHANGED <<faults, sigMode, hasPort, settled, display, connVars, provStep, loopVars,
                   sigint, recvVars, exitStatus>>

(* lines 87-92: the argument check *)
CheckArgs ==
    /\ pc = "start"
    /\ IF hasPort
       THEN /\ display' = PyPrint(display,
                   "Attempting to connect to Meshtastic device at serial port: " \o PORT)
            /\ pc' = "open"
            /\ UNCHANGED exitStatus
       ELSE /\ display' = PyPrint(display, "Usage: python simcccc.py <SERIAL_PORT>")
            /\ pc' = "exited"
            /\ exitStatus' = 1
    /\ UNCHANGED <<faults, envVars, connVars, provStep, loopVars, sigint, recvVars>>

(* an open that goes on to provisioning without the settle delay *)
OpenOK_NoSettle ==
    /\ pc = "open"
    /\ iface' = "open"
    /\ calls' = Append(calls, [op |-> "open"])
    /\ display' = PyPrint(display, "Connected to Meshtastic device over serial!")
    /\ pc' = "provBegin"
    /\ UNCHANGED <<faults, envVars, ch1, devCh1, cfgWritten, provStep, loopVars, sigint,
                   recvVars, exitStatus>>

(* lines 95-96: SerialInterface(devPath=port) returns *)
OpenOK ==
    /\ pc = "open"
    /\ iface' = "open"
    /\ calls' = Append(calls, [op |-> "open"])
    /\ display' = PyPrint(display, "Connected to Meshtastic device over serial!")
    /\ pc' = "settle"
    /\ UNCHANGED <<faults, envVars, ch1, devCh1, cfgWritten, provStep, loopVars, sigint,
                   recvVars, exitStatus>>

(* an open failure that is reported and followed by another attempt *)
OpenFail_Retry ==
    /\ pc = "open"
    /\ calls' = Append(calls, [op |-> "open"])
    /\ faults' = faults \cup {"open"}
    /\ display' = PyPrint(display, "Error initializing SerialInterface: " \o ERRTEXT)
    /\ UNCHANGED <<pc, exitStatus, envVars, iface, ch1, devCh1, cfgWritten, provStep, loopVars,
                   sigint, recvVars>>

(* lines 95, 99-101: SerialInterface(devPath=port) raises; iface is never bound *)
OpenFail ==
    /\ pc = "open"
    /\ calls' = Append(calls, [op |-> "open"])
    /\ faults' = faults \cup {"open"}
    /\ Raise("Exception")
    /\ UNCHANGED <<envVars, iface, ch1, devCh1, cfgWritten, provStep, loopVars, sigint,
                   recvVars>>

(* line 98: time.sleep(2) returns *)
SettleDone ==
    /\ pc = "settle"
    /\ settled' = TRUE
    /\ pc' = "provBegin"
    /\ UNCHANGED <<faults, sigMode, hasPort, subscribed, display, connVars, provStep, loopVars,
                   sigint, recvVars, exitStatus>>

(* line 105 *)
ProvBegin ==
    /\ pc = "provBegin"
    /\ display' = PyPrint(display, "Setting custom Channel 1 config (DC540 + custom PSK)...")
    /\ provStep' = 1
    /\ pc' = "prov"
    /\ UNCHANGED <<faults, envVars, connVars, loopVars, sigint, recvVars, exitStatus>>

(* lines 106-113: the next provisioning statement completes *)
ProvStepOK ==
    /\ pc = "prov"
    /\ ch1' = ProvAssign(ProvStmts[provStep], ch1)
    /\ calls' = ProvCall(ProvStmts[provStep], calls)
    /\ devCh1' = IF ProvStmts[provStep] = "writeChannel" THEN ch1 ELSE devCh1
    /\ cfgWritten' = (cfgWritten \/ ProvStmts[provStep] = "writeConfig")
    /\ IF provStep = Len(ProvStmts)
       THEN /\ display' = Emit(display, <<"Channel 1 set to DC540 with custom PSK.", NL, NL>>)
            /\ pc' = "banner"
            /\ UNCHANGED provStep
       ELSE /\ provStep' = provStep + 1
            /\ UNCHANGED <<display, pc>>
    /\ UNCHANGED <<faults, envVars, iface, loopVars, sigint, recvVars, exitStatus>>

(* lines 106-112, 114-115: the next provisioning statement raises *)
ProvStepFail ==
    /\ pc = "prov"
    /\ calls' = ProvCall(ProvStmts[provStep], calls)
    /\ faults' = faults \cup {"prov"}
    /\ Raise("Exception")
    /\ UNCHANGED <<envVars, iface, ch1, devCh1, cfgWritten, provStep, loopVars, sigint,
                   recvVars>>

(* lines 117-120 *)
Banner ==
    /\ pc = "banner"
    /\ display' = Emit(display,
          <<"Serial Interactive Meshtastic Custom Channel Chat Client 0.1.0", NL,
            "--------------------------------------------------------------", NL,
            "Type your message and press Enter to send.", NL,
            "Press Ctrl+C to exit...", NL, NL>>)
    /\ pc' = "prompt"
    /\ UNCHANGED <<faults, envVars, connVars, provStep, loopVars, sigint, recvVars, exitStatus>>

(* line 126: input("Ch1> ") is handed to the executor, which writes the prompt *)
Prompt ==
    /\ pc = "prompt"
    /\ display' = Write(display, PROMPT)
    /\ pc' = "await"
    /\ UNCHANGED <<faults, envVars, connVars, provStep, loopVars, sigint, recvVars, exitStatus>>

(* lines 126-127: the awaited input() returns a line, one of L, at most n times *)
InputLineOf(L, n) ==
    /\ pc = "await"
    /\ sigint # "pending"
    /\ Len(linesRead) < n
    /\ \E line \in L :
          /\ msg' = line
          /\ linesRead' = Append(linesRead, line)
          /\ pc' = IF LineTruthy(line) THEN "send" ELSE "prompt"
    /\ UNCHANGED <<faults, envVars, display, connVars, provStep, sigint, recvVars, exitStatus>>

InputLine == InputLineOf(Lines, MaxLines)

(* line 126: input() meets end of input and raises EOFError *)
InputEOF ==
    /\ pc = "await"
    /\ sigint # "pending"
    /\ faults' = faults \cup {"input"}
    /\ Raise("EOFError")
    /\ UNCHANGED <<envVars, connVars, provStep, loopVars, sigint, recvVars>>

(* line 129: iface.sendText(msg, channelIndex=1) returns *)
SendOK ==
    /\ pc = "send"
    /\ calls' = Append(calls, SendCall(msg))
    /\ pc' = "pace"
    /\ UNCHANGED <<faults, envVars, display, iface, ch1, devCh1, cfgWritten, provStep, loopVars,
                   sigint, recvVars, exitStatus>>

(* line 129: iface.sendText(msg, channelIndex=1) raises *)
SendFail ==
    /\ pc = "send"
    /\ calls' = Append(calls, SendCall(msg))
    /\ faults' = faults \cup {"send"}
    /\ Raise("Exception")
    /\ UNCHANGED <<envVars, iface, ch1, devCh1, cfgWritten, provStep, loopVars, sigint,
                   recvVars>>

(* line 130: asyncio.sleep(0.1) completes *)
PaceDone ==
    /\ pc = "pace"
    /\ sigint # "pending"
    /\ pc' = "prompt"
    /\ UNCHANGED <<faults, envVars, display, connVars, provStep, loopVars, sigint, recvVars,
                   exitStatus>>

(* an exit that leaves the interface open *)
Finally_NoClose ==
    /\ pc = "finally"
    /\ pc' = "exited"
    /\ exitStatus' = 0
    /\ UNCHANGED <<faults, envVars, display, connVars, provStep, loopVars, sigint, recvVars>>

(* lines 133-135: iface.close(); sys.exit(0) *)
Finally ==
    /\ pc = "finally"
    /\ calls' = Append(calls, [op |-> "close"])
    /\ iface' = "closed"
    /\ pc' = "exited"
    /\ exitStatus' = 0
    /\ UNCHANGED <<faults, envVars, display, ch1, devCh1, cfgWritten, provStep, loopVars, sigint,
                   recvVars>>

(* ---------------- SIGINT ---------------- *)
InterruptPcs == {"start", "open", "settle", "provBegin", "prov", "banner",
                 "prompt", "await", "send", "pace"}

(* the user presses Ctrl+C while main is at pc *)
Interrupt ==
    /\ sigint = "none"
    /\ pc \in InterruptPcs
    /\ IF pc \in AwaitPcs
       THEN /\ sigint' = "delivered"
            /\ Raise("CancelledError")
       ELSE IF sigMode = "raise"
       THEN /\ sigint' = "delivered"
            /\ Raise("KeyboardInterrupt")
       ELSE /\ sigint' = "pending"
            /\ UNCHANGED <<pc, display, exitStatus>>
    /\ UNCHANGED <<faults, envVars, connVars, provStep, loopVars, recvVars>>

(* a cancellation requested while main was running reaches it at its next await *)
DeliverCancel ==
    /\ sigint = "pending"
    /\ pc \in AwaitPcs
    /\ sigint' = "delivered"
    /\ Raise("CancelledError")
    /\ UNCHANGED <<faults, envVars, connVars, provStep, loopVars, recvVars>>

(* ---------------- the publisher ---------------- *)
(* a callback that can only run between two input waits *)
Receive_StalledByInput ==
    /\ subscribed
    /\ iface = "open"
    /\ pc \notin {"exited", "await"}
    /\ Len(recvLog) < MaxRecv
    /\ \E packet \in Packets :
          LET r == onReceive(packet, display) IN
          /\ display' = r.d
          /\ cbErr' = r.err
          /\ recvLog' = Append(recvLog, packet)
    /\ UNCHANGED <<faults, pc, envVars, connVars, provStep, loopVars, sigint, exitStatus>>

(* a callback that closes the interface when it raises *)
Receive_Closes ==
    /\ subscribed
    /\ iface = "open"
    /\ pc # "exited"
    /\ Len(recvLog) < MaxRecv
    /\ \E packet \in Packets :
          LET r == onReceive(packet, display) IN
          /\ display' = r.d
          /\ cbErr' = r.err
          /\ recvLog' = Append(recvLog, packet)
          /\ iface' = IF r.err = "none" THEN iface ELSE "closed"
          /\ calls' = IF r.err = "none" THEN calls ELSE Append(calls, [op |-> "close"])
    /\ UNCHANGED <<faults, pc, envVars, ch1, devCh1, cfgWritten, provStep, loopVars, sigint,
                   exitStatus>>

(* the interface's reader publishes a packet, one of P, on                 *)
(* meshtastic.receive.text, at most n times                                *)
ReceiveOf(P, n) ==
    /\ subscribed
    /\ iface = "open"
    /\ pc # "exited"
    /\ Len(recvLog) < n
    /\ \E packet \in P :
          LET r == onReceive(packet, display) IN
          /\ display' = r.d
          /\ cbErr' = r.err
          /\ recvLog' = Append(recvLog, packet)
    /\ UNCHANGED <<faults, pc, envVars, connVars, provStep, loopVars, sigint, exitStatus>>

Receive == ReceiveOf(Packets, MaxRecv)

Next ==
    \/ Subscribe
    \/ CheckArgs
    \/ OpenOK
    \/ OpenFail
    \/ SettleDone
    \/ ProvBegin
    \/ ProvStepOK
    \/ ProvStepFail
    \/ Banner
    \/ Prompt
    \/ InputLine
    \/ InputEOF
    \/ SendOK
    \/ SendFail
    \/ PaceDone
    \/ Finally
    \/ Interrupt
    \/ DeliverCancel
    \/ Receive

Spec == Init /\ [][Next]_vars

(* main's synchronous statements run to completion: each returns or raises *)
MainStep ==
    \/ Subscribe \/ CheckArgs \/ OpenOK \/ OpenFail \/ SettleDone \/ ProvBegin
    \/ ProvStepOK \/ ProvStepFail \/ Banner \/ Prompt \/ SendOK \/ SendFail
    \/ Finally \/ DeliverCancel

FairSpec == Spec /\ WF_vars(MainStep)

(* ---------------- the program from its first prompt on ---------------- *)
(* The state in which main reaches line 123 after an open and a            *)
(* provisioning that succeeded, with no packet received and no interrupt.  *)
LoopInit ==
    /\ pc = "prompt"
    /\ sigMode \in {"raise", "cancel"}
    /\ hasPort = TRUE
    /\ subscribed = TRUE
    /\ iface = "open"
    /\ display = [lines |->
          <<"Attempting to connect to Meshtastic device at serial port: " \o PORT,
            "Connected to Meshtastic device over serial!",
            "Setting custom Channel 1 config (DC540 + custom PSK)...",
            "Channel 1 set to DC540 with custom PSK.",
            "",
            "Serial Interactive Meshtastic Custom Channel Chat Client 0.1.0",
            "--------------------------------------------------------------",
            "Type your message and press Enter to send.",
            "Press Ctrl+C to exit...",
            "">>,
          cur |-> ""]
    /\ ch1 = [name |-> CUSTOM_CHANNEL_NAME, psk |-> CUSTOM_CHANNEL_PSK, usePreset |-> FALSE]
    /\ devCh1 = ch1
    /\ cfgWritten = TRUE
    /\ provStep = Len(ProvStmts)
    /\ msg = ""
    /\ linesRead = <<>>
    /\ calls = <<[op |-> "open"], [op |-> "writeChannel", index |-> CHANNEL_INDEX],
                 [op |-> "writeConfig"]>>
    /\ sigint = "none"
    /\ recvLog = <<>>
    /\ cbErr = "none"
    /\ faults = {}
    /\ settled = TRUE
    /\ exitStatus = 0

LoopInputLine == InputLineOf(LoopLines, MaxLoopLines)
LoopReceive == ReceiveOf(LoopPackets, MaxLoopRecv)

LoopNext ==
    \/ Prompt
    \/ LoopInputLine
    \/ InputEOF
    \/ SendOK
    \/ SendFail
    \/ PaceDone
    \/ Finally
    \/ Interrupt
    \/ DeliverCancel
    \/ LoopReceive

LoopSpec == LoopInit /\ [][LoopNext]_vars

(* ======================= properties ======================= *)
Last(q) == q[Len(q)]
CallsOf(o) == SelectSeq(calls, LAMBDA c : c.op = o)
OpenCalls == Len(CallsOf("open"))
CloseCalls == Len(CallsOf("close"))
Sends == CallsOf("sendText")
Displayed(line) == \E i \in DOMAIN display.lines : display.lines[i] = line
LoopEntered == pc \in LoopTryPcs \cup {"finally"} \/ CloseCalls > 0
UsageExit == Displayed("Usage: python simcccc.py <SERIAL_PORT>")
OpenFailExit == "open" \in faults
InterruptExit == sigint = "delivered"

(* C1: once the process has exited after calling open, exactly one close() *)
(* call has been issued on the connection, whatever the reason of the exit *)
(* (interrupt at any point, or an open that failed).                       *)
C1_ExactlyOneClose ==
    (pc = "exited" /\ OpenCalls > 0) => CloseCalls = 1

(* C2: after sendText has raised (and no interrupt has arrived) the loop   *)
(* is still in its prompt/read/send cycle and the connection is still open *)
C2_SendFailureKeepsLoop ==
    ("send" \in faults /\ sigint = "none") => (pc \in LoopTryPcs /\ iface = "open")

(* C3: at exit the status is 1 after a missing argument or a failed open,  *)
(* 0 after an interrupt of the send loop, and a status of 0 or 1 has no    *)
(* other cause: an exit that an error caused is not reported as status 0.  *)
C3_ExitStatus ==
    pc = "exited" =>
        /\ (UsageExit \/ OpenFailExit) => exitStatus = 1
        /\ (InterruptExit /\ LoopEntered) => exitStatus = 0
        /\ exitStatus = 0 => InterruptExit
        /\ exitStatus = 1 => (UsageExit \/ OpenFailExit)

(* C4: whenever a provisioning statement has raised, the send loop is      *)
(* eventually entered, unless an interrupt arrives.                        *)
C4_ProvisionFailureReachesLoop ==
    []("prov" \in faults => <>(LoopEntered \/ sigint # "none"))

C4_Witness ==
    /\ "prov" \in faults
    /\ Displayed("Error configuring Channel 1: boom")
    /\ ch1.name = CUSTOM_CHANNEL_NAME /\ ~cfgWritten
    /\ pc = "await"
    /\ sigint = "none"

(* C5: once open has raised, the failure has been reported, the process    *)
(* has exited with a non-zero status, open was called exactly once, and    *)
(* nothing of provisioning or of the send loop has run.                    *)
C5_OpenFailureIsFatal ==
    "open" \in faults =>
        /\ pc = "exited"
        /\ exitStatus # 0
        /\ Displayed("Error initializing SerialInterface: boom")
        /\ calls = <<[op |-> "open"]>>
        /\ ~Displayed("Setting custom Channel 1 config (DC540 + custom PSK)...")
        /\ ch1 = DefaultChannel /\ devCh1 = DefaultChannel /\ ~cfgWritten
        /\ linesRead = <<>>
        /\ ~LoopEntered

C5_Witness ==
    "open" \in faults /\ pc = "exited" /\ iface = "unbound" /\ exitStatus = 1

(* C6: the sends issued are, in order, the non-empty lines read, each once *)
(* and on channel index 1; only the line just read may still be unsent;    *)
(* after an empty line the loop is back at the prompt with nothing sent.   *)
C6_SendsAreNonEmptyLines ==
    LET nonEmpty == SelectSeq(linesRead, LAMBDA l : l # "") IN
    /\ Len(Sends) <= Len(nonEmpty)
    /\ \A i \in 1..Len(Sends) :
          Sends[i] = [op |-> "sendText", text |-> nonEmpty[i], channelIndex |-> 1]
    /\ Len(nonEmpty) - Len(Sends) <= 1
    /\ pc \in {"prompt", "await", "pace"} => Len(Sends) = Len(nonEmpty)
    /\ (linesRead # <<>> /\ Last(linesRead) = "") =>
          (pc \notin {"send", "pace"} /\ Len(Sends) = Len(nonEmpty))

C6_Witness ==
    /\ linesRead = <<"", "hello">>
    /\ Sends = <<[op |-> "sendText", text |-> "hello", channelIndex |-> 1]>>
    /\ pc = "await"

(* the shapes of an inbound packet *)
NoPayload(p) == p = PyNone \/ p = PyDict(EmptyDict)
HasText(p) ==
    /\ p.t = "dict"
    /\ "decoded" \in DOMAIN p.d
    /\ p.d.decoded.t = "dict"
    /\ "text" \in DOMAIN p.d.decoded.d
SenderOf(p) == IF "fromId" \in DOMAIN p.d THEN Format(p.d.fromId) ELSE "unknown"
Received == recvLog' # recvLog

(* C7: a callback on a packet with decoded.text ends the line the display  *)
(* was on, writes the line "<sender>: <text>" and nothing else, and leaves *)
(* the prompt string on the current line; <sender> is fromId when present  *)
(* and "unknown" when absent.                                              *)
C7_TextIsDisplayed ==
    [][(Received /\ HasText(Last(recvLog'))) =>
          LET p == Last(recvLog') IN
          /\ display'.lines = Append(display.lines, display.cur)
                                \o <<SenderOf(p) \o ": " \o Format(p.d.decoded.d.text)>>
          /\ display'.cur = "Ch1> "
          /\ cbErr' = "none"]_vars

C7_Witness ==
    /\ recvLog # <<>>
    /\ HasText(Last(recvLog))
    /\ "fromId" \notin DOMAIN Last(recvLog).d
    /\ Len(display.lines) > 0
    /\ Last(display.lines) = "unknown: hi"
    /\ display.cur = "Ch1> "

(* C8: a callback on no packet or on an empty packet leaves the display    *)
(* unchanged and raises nothing.                                           *)
C8_NoPayloadNoOutput ==
    [][(Received /\ NoPayload(Last(recvLog'))) =>
          (display' = display /\ cbErr' = "none")]_vars

C8_Witness ==
    /\ recvLog # <<>>
    /\ Last(recvLog) = PyNone
    /\ cbErr = "none"
    /\ pc = "await"
    /\ display.cur = "Ch1> "

(* C9: a callback on any packet that does not carry decoded.text leaves    *)
(* the display unchanged and raises nothing.                               *)
C9_MalformedIgnored ==
    [][(Received /\ ~HasText(Last(recvLog'))) =>
          (display' = display /\ cbErr' = "none")]_vars

(* C10: once provisioning has completed (writeConfig returned), channel    *)
(* slot 1 of the local node reads back name "DC540", the configured key    *)
(* and usePreset = FALSE, in that state and in every later one, whatever   *)
(* is sent or received afterwards.                                         *)
C10_ProvisioningRoundTrip ==
    cfgWritten =>
        /\ ch1 = [name |-> "DC540",
                  psk |-> "OVRpanBCYjZ2WmVIZTRheVlSZDZZWGxUcElFNFRSaWo=",
                  usePreset |-> FALSE]
        /\ devCh1 = ch1

C10_Witness ==
    /\ cfgWritten
    /\ ch1.name = "DC540" /\ ~ch1.usePreset
    /\ Len(Sends) > 0
    /\ recvLog # <<>>
    /\ faults = {}

(* C11: as long as no interrupt has arrived, a loop that was entered is    *)
(* still in its prompt/read/send cycle.                                    *)
C11_LoopEndsOnlyOnInterrupt ==
    (LoopEntered /\ sigint = "none") => pc \in LoopTryPcs

(* C12: whenever the loop has terminated (main is at the finally block or  *)
(* past it), the exit notice has been printed.                             *)
C12_ExitNoticeBeforeClose ==
    (pc = "finally" \/ CloseCalls > 0) => Displayed("Exiting...")

ProvOps == {"writeChannel", "writeConfig"}
ProvisionStarted ==
    \/ pc \in ProvTryPcs
    \/ "prov" \in faults
    \/ ch1 # DefaultChannel
    \/ \E i \in DOMAIN calls : calls[i].op \in ProvOps

(* C13: provisioning and sends happen only once open has returned and the  *)
(* settle delay has elapsed; the calls on the interface start with open,   *)
(* no provisioning call follows a send, the loop is entered only after the *)
(* provisioning attempt, and a send only after a prompt was answered.      *)
C13_NothingBeforeSettle ==
    /\ (ProvisionStarted \/ LoopEntered \/ Len(Sends) > 0) => (settled /\ iface # "unbound")
    /\ settled => (calls # <<>> /\ calls[1] = [op |-> "open"])
    /\ \A i, j \in DOMAIN calls :
          (i < j /\ calls[i].op = "sendText") => calls[j].op \notin ProvOps \cup {"open"}
    /\ LoopEntered => ("prov" \in faults \/ cfgWritten)
    /\ Len(Sends) > 0 => (linesRead # <<>> /\ Displayed("Press Ctrl+C to exit..."))

C13_Witness ==
    /\ settled
    /\ cfgWritten
    /\ calls = <<[op |-> "open"], [op |-> "writeChannel", index |-> 1], [op |-> "writeConfig"],
                 [op |-> "sendText", text |-> "hello", channelIndex |-> 1]>>

(* the state of the connection, in the terms of the state machine *)
ConnState ==
    CASE iface = "closed" -> "Closed"
      [] iface = "open" /\ settled -> "Connected"
      [] iface = "open" /\ ~settled -> "Connecting"
      [] OTHER -> "Disconnected"

(* C14: every change of the connection state is one of Disconnected ->     *)
(* Connecting -> Connected -> Closed; open is called at most once; once    *)
(* the connection is closed no call is issued on it and the channel is     *)
(* left alone.                                                             *)
C14_ConnectionMonotone ==
    [][/\ ConnState' # ConnState =>
            <<ConnState, ConnState'>> \in {<<"Disconnected", "Connecting">>,
                                          <<"Connecting", "Connected">>,
                                          <<"Connected", "Closed">>}
       /\ OpenCalls' <= 1
       /\ iface = "closed" =>
            (calls' = calls /\ ch1' = ch1 /\ devCh1' = devCh1 /\ cfgWritten' = cfgWritten)]_vars

C14_Witness ==
    /\ ConnState = "Closed"
    /\ pc = "exited"
    /\ OpenCalls = 1
    /\ Len(Sends) > 0
    /\ Last(calls) = [op |-> "close"]

FullChannel ==
    [name |-> "DC540", psk |-> "OVRpanBCYjZ2WmVIZTRheVlSZDZZWGxUcElFNFRSaWo=",
     usePreset |-> FALSE]

(* provisioning step k of name, key, preset flag, writeChannel, writeConfig *)
(* (steps 3..7 of the block) has completed                                 *)
Completed(k) ==
    CASE k = 3 -> ch1.name = FullChannel.name
      [] k = 4 -> ch1.psk = FullChannel.psk
      [] k = 5 -> ch1.usePreset = FullChannel.usePreset
      [] k = 6 -> devCh1 = FullChannel
      [] k = 7 -> cfgWritten

(* C15: a provisioning step has completed only if all the steps before it  *)
(* have; once a step has raised, neither it nor a later step completes;    *)
(* writeChannel(1) is issued only after the three fields are set and       *)
(* writeConfig only after writeChannel completed, each at most once.       *)
C15_ProvisioningOrder ==
    /\ \A k \in 3..7 : Completed(k) => \A i \in 3..(k - 1) : Completed(i)
    /\ "prov" \in faults => \A k \in 3..7 : k >= provStep => ~Completed(k)
    /\ Len(CallsOf("writeChannel")) <= 1
    /\ Len(CallsOf("writeConfig")) <= 1
    /\ CallsOf("writeChannel") # <<>> =>
          (ch1 = FullChannel /\ CallsOf("writeChannel")[1].index = 1)
    /\ CallsOf("writeConfig") # <<>> =>
          (Completed(6) /\ \E i, j \in DOMAIN calls :
                              i < j /\ calls[i].op = "writeChannel" /\ calls[j].op = "writeConfig")

C15_Witness ==
    /\ "prov" \in faults
    /\ provStep = 6
    /\ ch1 = FullChannel
    /\ devCh1 = DefaultChannel
    /\ CallsOf("writeChannel") # <<>>
    /\ CallsOf("writeConfig") = <<>>
    /\ pc = "await"

(* C16: whenever main is suspended in the wait for an input line (and the  *)
(* model's budget of packets is not used up), the callback can run on a    *)
(* text packet and print it, with main still waiting and no line read.     *)
C16_DispatchDuringInputWait ==
    (pc = "await" /\ Len(recvLog) < MaxRecv) =>
        ENABLED (/\ Receive
                 /\ HasText(Last(recvLog'))
                 /\ display' # display
                 /\ display'.cur = "Ch1> "
                 /\ linesRead' = linesRead
                 /\ pc' = "await")

C16_Witness ==
    /\ pc = "await"
    /\ linesRead = <<>>
    /\ recvLog # <<>>
    /\ HasText(Last(recvLog))
    /\ Len(display.lines) >= 2
    /\ display.lines[Len(display.lines) - 1] = "Ch1> "
    /\ Last(display.lines) = "!a1: hi"
    /\ display.cur = "Ch1> "

MsgLine(p) == SenderOf(p) \o ": " \o Format(p.d.decoded.d.text)
MsgLines == {MsgLine(p) : p \in {q \in Packets : HasText(q)}}
IsMsgLine(l) == l \in MsgLines

(* C17: the texts sent are, in order and without duplicates, the non-empty *)
(* lines the user submitted (the last one may be missing only while its    *)
(* send is about to be issued or when an interrupt ended the loop first),  *)
(* and the message lines on the display are, in order, those of the text   *)
(* packets that arrived.                                                   *)
C17_OrderPreserved ==
    LET nonEmpty == SelectSeq(linesRead, LAMBDA l : l # "")
        texts == SelectSeq(recvLog, HasText)
        shown == SelectSeq(display.lines, IsMsgLine)
    IN /\ Len(Sends) <= Len(nonEmpty)
       /\ \A i \in 1..Len(Sends) : Sends[i].text = nonEmpty[i]
       /\ Len(Sends) < Len(nonEmpty) =>
             /\ Len(Sends) = Len(nonEmpty) - 1
             /\ (pc = "send" \/ sigint = "delivered")
       /\ Len(shown) = Len(texts)
       /\ \A i \in 1..Len(shown) : shown[i] = MsgLine(texts[i])

C17_Witness ==
    /\ Len(Sends) = 2
    /\ Sends[1].text = "yo" /\ Sends[2].text = "hello"
    /\ Len(recvLog) = 2
    /\ HasText(recvLog[1]) /\ HasText(recvLog[2])
    /\ MsgLine(recvLog[1]) = "!a1: yo" /\ MsgLine(recvLog[2]) = "unknown: hi"
    /\ SelectSeq(display.lines, IsMsgLine) = <<"!a1: yo", "unknown: hi">>

(* C18: a callback leaves the connection as it was: its state, the channel *)
(* configuration and the calls issued on the interface; so every open,     *)
(* provisioning call, send and close is issued by a step of main.          *)
C18_ReceiveLeavesConnection ==
    [][Received =>
          /\ ConnState' = ConnState
          /\ iface' = iface
          /\ ch1' = ch1 /\ devCh1' = devCh1 /\ cfgWritten' = cfgWritten
          /\ calls' = calls]_vars

C18_Witness ==
    /\ recvLog # <<>>
    /\ cbErr = "TypeError"
    /\ ConnState = "Connected"
    /\ cfgWritten
    /\ Last(calls).op = "sendText"

(* C19: the callback is subscribed whenever the connection is open, and a  *)
(* callback writes to the display only while the send loop is running.     *)
C19_ArmedAndQuietBeforeLoop ==
    [][/\ iface' = "open" => subscribed'
       /\ (Received /\ display' # display) => pc \in LoopTryPcs]_vars

(* C20: an interrupt that arrives during the wait for input takes main to  *)
(* the finally block at once; once an interrupt has been delivered to the  *)
(* loop no send is issued any more, and the process eventually exits with  *)
(* the connection closed by exactly one close().                           *)
C20_InterruptedWaitEndsInClose ==
    /\ [][(pc = "await" /\ sigint # "delivered" /\ sigint' = "delivered") =>
              (pc' = "finally" /\ linesRead' = linesRead)]_vars
    /\ [][(sigint = "delivered" /\ LoopEntered) => Sends' = Sends]_vars
    /\ []((sigint = "delivered" /\ LoopEntered) =>
              <>(pc = "exited" /\ iface = "closed" /\ CloseCalls = 1))

C20_Witness ==
    /\ sigint = "delivered"
    /\ pc = "exited"
    /\ iface = "closed"
    /\ linesRead = <<"hello">>
    /\ Len(Sends) = 1
    /\ display.cur = "Ch1> Ch1> "
    /\ ~Displayed("Exiting...")

====
